---- MODULE Spec2Model ----
(***************************************************************************)
(* debug_iterator (src/src/lib.rs): the DebugPrinter iterator adapter.     *)
(*                                                                         *)
(* Two independent runs are modelled side by side.  A run is one build of  *)
(* the crate (with or without the "logging" feature), one adapter made by  *)
(* one of the four constructors of the DebugIterator trait, the iterator   *)
(* it wraps, and the two diagnostic sinks of that process.  The wrapped    *)
(* iterator is any Rust Iterator: each call of its next() answers Some(e)  *)
(* or None, and nothing obliges it to keep answering None once it has.     *)
(***************************************************************************)
EXTENDS Integers, Sequences, FiniteSets, TLC

\* Bound of the model: calls of DebugPrinter::next made in the two runs together.
MaxCalls == 4

\* The two runs that are compared with each other.
Runs == {"A", "B"}

\* Option<T>: None, or Some(x).
None == <<>>

Some(x) == <<x>>

IsSome(o) == o # None

Option(S) == {None} \cup {Some(x) : x \in S}

\* The element type of the crate documentation: struct Person { name, age }.
Names == {"Bob"}

Ages == {4, 8}

Person == [name : Names, age : Ages]

\* The prefixes handed to debug_prefix and debug_prefix_pretty.
Prefixes == {"This person is"}

\* std::fmt::Debug of a String: the text between double quotes (no character of
\* Names needs an escape).
DebugStr(s) == "\"" \o s \o "\""

\* std::fmt::Debug of an i32: its decimal digits.
DebugI32(n) == ToString(n)

\* "{:?}" of a Person (#[derive(Debug)]): one line.
Compact(e) == "Person { name: " \o DebugStr(e.name) \o ", age: " \o DebugI32(e.age) \o " }"

\* "{:#?}" of a Person (#[derive(Debug)]): one field per line, indented.
Pretty(e) == "Person {\n    name: " \o DebugStr(e.name) \o ",\n    age: " \o DebugI32(e.age) \o ",\n}"

VARIABLES
    logging,    \* logging[r]: run r was built with feature "logging"
    ctor,       \* ctor[r]: the constructor that made the adapter, and its prefix
    printer,    \* printer[r]: the adapter's fields .1 (pretty) and .2 (msg)
    source,     \* source[r]: what the wrapped iterator (field .0) answered, call by call
    ret,        \* ret[r]: what DebugPrinter::next returned, call by call
    stderr,     \* stderr[r]: the writes made to the error stream
    log,        \* log[r]: the records handed to the log facade
    events      \* events[r]: the steps of the calls of next, in program order

vars == <<logging, ctor, printer, source, ret, stderr, log, events>>

\* DebugPrinter::new: Self(x, pretty, msg); x is the iterator that `source` follows.
new(pretty, msg) == [pretty |-> pretty, msg |-> msg]

\* DebugIterator::debug
debug == new(FALSE, None)

\* DebugIterator::debug_pretty
debug_pretty == new(TRUE, None)

\* DebugIterator::debug_prefix
debug_prefix(prefix) == new(FALSE, Some(prefix))

\* Variant of debug_prefix_pretty: the flag of debug_prefix is passed.
debug_prefix_pretty_flag(prefix) == new(FALSE, Some(prefix))

\* DebugIterator::debug_prefix_pretty
debug_prefix_pretty(prefix) == new(TRUE, Some(prefix))

\* The calls a program can make to wrap an iterator.
Ctors ==
    {[name |-> n, prefix |-> None] : n \in {"debug", "debug_pretty"}}
    \cup {[name |-> n, prefix |-> Some(p)] :
            n \in {"debug_prefix", "debug_prefix_pretty"}, p \in Prefixes}

\* The adapter a constructor call returns.
Construct(c) ==
    CASE c.name = "debug" -> debug
      [] c.name = "debug_pretty" -> debug_pretty
      [] c.name = "debug_prefix" -> debug_prefix(c.prefix[1])
      [] c.name = "debug_prefix_pretty" -> debug_prefix_pretty(c.prefix[1])

Init ==
    /\ logging \in [Runs -> BOOLEAN]
    /\ ctor \in [Runs -> Ctors]
    /\ printer = [r \in Runs |-> Construct(ctor[r])]
    /\ source = [r \in Runs |-> <<>>]
    /\ ret = [r \in Runs |-> <<>>]
    /\ stderr = [r \in Runs |-> <<>>]
    /\ log = [r \in Runs |-> <<>>]
    /\ events = [r \in Runs |-> <<>>]

\* Variant of PullSource: the adapter remembers exhaustion and stops calling the iterator.
PullSourceFused(self, item) ==
    IF \E i \in 1..Len(source[self]) : source[self][i] = None
    THEN source' = source
    ELSE source' = [source EXCEPT ![self] = Append(@, item)]

\* Variant of PullSource: the adapter fetches one element ahead of the caller.
PullSourceAhead(self, item) ==
    source' = [source EXCEPT ![self] = Append(Append(@, item), item)]

\* let next = self.0.next(): the wrapped iterator is called once and answers item.
PullSource(self, item) == source' = [source EXCEPT ![self] = Append(@, item)]

\* Variant of Format: the text also carries the number of the pull.
FormatCounted(self, next) ==
    ToString(Len(ret[self])) \o ": " \o Compact(next)

\* match (self.1, &self.2): the text handed to _log_this!.
Format(self, next) ==
    LET pretty == printer[self].pretty
        msg == printer[self].msg
    IN  CASE pretty /\ IsSome(msg) -> msg[1] \o ": " \o Pretty(next)
          [] ~pretty /\ IsSome(msg) -> msg[1] \o ": " \o Compact(next)
          [] pretty /\ ~IsSome(msg) -> Pretty(next)
          [] ~pretty /\ ~IsSome(msg) -> Compact(next)

\* Variant of LogThis: both cfg arms are compiled in.
LogThisBoth(self, text) ==
    /\ log' = [log EXCEPT ![self] = Append(@, [level |-> "Debug", message |-> text])]
    /\ stderr' = [stderr EXCEPT ![self] = Append(@, text \o "\n")]

\* Variant of LogThis: the feature is not consulted, eprintln! is always used.
LogThisStderr(self, text) ==
    /\ stderr' = [stderr EXCEPT ![self] = Append(@, text \o "\n")]
    /\ UNCHANGED log

\* _log_this!: log::debug!("{}", text) under feature "logging", else eprintln!("{}", text).
LogThis(self, text) ==
    IF logging[self]
    THEN /\ log' = [log EXCEPT ![self] = Append(@, [level |-> "Debug", message |-> text])]
         /\ UNCHANGED stderr
    ELSE /\ stderr' = [stderr EXCEPT ![self] = Append(@, text \o "\n")]
         /\ UNCHANGED log

\* Variant of Yield: a rebuilt element is handed back, its age reset.
YieldRebuilt(next) == Some([next EXCEPT !.age = 4])

\* Some(next): the value handed back to the caller.
Yield(next) == Some(next)

\* Variant of KeepPolicy: the prefix is taken out of self.2 by the match.
TakePrefix(self) == printer' = [printer EXCEPT ![self].msg = None]

\* next takes &mut self and assigns neither .1 nor .2.
KeepPolicy(self) == printer' = printer

\* Variant of Exhausted: the Option is written out before the `?`.
ExhaustedLogged(self) ==
    /\ ret' = [ret EXCEPT ![self] = Append(@, None)]
    /\ IF logging[self]
       THEN /\ log' = [log EXCEPT ![self] = Append(@, [level |-> "Debug", message |-> "None"])]
            /\ UNCHANGED stderr
       ELSE /\ stderr' = [stderr EXCEPT ![self] = Append(@, "None\n")]
            /\ UNCHANGED log

\* The `?` of self.0.next()?: None is returned at once, nothing is written.
Exhausted(self) ==
    /\ ret' = [ret EXCEPT ![self] = Append(@, None)]
    /\ UNCHANGED <<stderr, log>>

\* Variant of Steps: the text is written by a guard that runs after the return value is set.
StepsEmitLate(item, text, result) ==
    IF IsSome(item)
    THEN << [op |-> "call"], [op |-> "fetch", item |-> item],
            [op |-> "return", item |-> result], [op |-> "emit", text |-> text] >>
    ELSE << [op |-> "call"], [op |-> "fetch", item |-> item],
            [op |-> "return", item |-> result] >>

\* The steps of one call of next, in the order of its statements.
Steps(item, text, result) ==
    IF IsSome(item)
    THEN << [op |-> "call"], [op |-> "fetch", item |-> item],
            [op |-> "emit", text |-> text], [op |-> "return", item |-> result] >>
    ELSE << [op |-> "call"], [op |-> "fetch", item |-> item],
            [op |-> "return", item |-> result] >>

\* DebugPrinter::next
next(self) ==
    /\ Len(ret["A"]) + Len(ret["B"]) < MaxCalls
    /\ \E item \in Option(Person) :
        /\ PullSource(self, item)
        /\ KeepPolicy(self)
        /\ IF IsSome(item)
           THEN /\ LogThis(self, Format(self, item[1]))
                /\ ret' = [ret EXCEPT ![self] = Append(@, Yield(item[1]))]
                /\ events' = [events EXCEPT ![self] =
                        @ \o Steps(item, Format(self, item[1]), Yield(item[1]))]
           ELSE /\ Exhausted(self)
                /\ events' = [events EXCEPT ![self] = @ \o Steps(item, "", None)]
    /\ UNCHANGED <<logging, ctor>>

Next == \E self \in Runs : next(self)

Spec == Init /\ [][Next]_vars

(***************************************************************************)
(* Reading the histories.                                                  *)
(***************************************************************************)

\* The elements among a sequence of answers, in order.
Elems(s) == SelectSeq(s, IsSome)

\* The sink that run r's build writes to.
Emitted(r) == IF logging[r] THEN log[r] ELSE stderr[r]

\* Number of emissions run r made, whatever their destination.
Emissions(r) == Len(stderr[r]) + Len(log[r])

\* What a sink holds for one emission of text: a log record, or a line of stderr.
Entry(lg, text) == IF lg THEN [level |-> "Debug", message |-> text] ELSE text \o "\n"

\* An iterator that, so far, kept answering None once it had answered None.
Fused(s) == \A i, j \in 1..Len(s) : i < j /\ s[i] = None => s[j] = None

\* The source has answered None at least once.
SourceExhausted(r) == \E i \in 1..Len(source[r]) : source[r][i] = None

Bob(age) == [name |-> "Bob", age |-> age]

(***************************************************************************)
(* C1.  Passthrough identity: the n-th value the adapter returns is the    *)
(* n-th value the source produced, for every n; the same elements, in the  *)
(* same order, with the same count, up to and including exhaustion.        *)
(***************************************************************************)
C1_PassthroughIdentity ==
    \A r \in Runs :
        /\ ret[r] = source[r]
        /\ Elems(ret[r]) = Elems(source[r])

\* A source of two different elements pulled to exhaustion.
C1_Witness ==
    \E r \in Runs :
        /\ source[r] = << Some(Bob(8)), Some(Bob(4)), None >>
        /\ Len(ret[r]) = 3

(***************************************************************************)
(* C2.  Emission count: in every reachable state the number of emissions   *)
(* written equals the number of elements the adapter has returned; a pull  *)
(* that reports exhaustion adds none.                                      *)
(***************************************************************************)
C2_EmissionCount ==
    \A r \in Runs : Emissions(r) = Len(Elems(ret[r]))

\* One element returned, then exhaustion reported: one emission.
C2_Witness ==
    \E r \in Runs :
        /\ Len(ret[r]) = 2
        /\ IsSome(ret[r][1])
        /\ ret[r][2] = None
        /\ Emissions(r) = 1

(***************************************************************************)
(* C3 as stated.  For any wrapped source, fused or not: once the source    *)
(* has reported no more elements, every later pull on the adapter reports  *)
(* no more elements, and no emission is made after the exhaustion.         *)
(***************************************************************************)
C3_ExhaustionSticks ==
    \A r \in Runs :
        \A i \in 1..Len(source[r]) :
            source[r][i] = None =>
                /\ \A j \in 1..Len(ret[r]) : i < j => ret[r][j] = None
                /\ Emissions(r) = Len(Elems(SubSeq(source[r], 1, i)))

(***************************************************************************)
(* C3 amended.  On every pull on which the source reports no more          *)
(* elements the adapter reports no more elements and emits nothing; hence  *)
(* for a source that keeps reporting exhaustion once it has (a fused       *)
(* iterator), every pull after the exhaustion reports no more elements and *)
(* no emission is made after it.  An element that a non-fused source       *)
(* yields after an exhaustion is returned and emitted like any other.      *)
(***************************************************************************)
C3_ExhaustionPropagates ==
    \A r \in Runs :
        /\ Len(ret[r]) = Len(source[r])
        /\ \A j \in 1..Len(ret[r]) : source[r][j] = None <=> ret[r][j] = None
        /\ Emissions(r) = Len(Elems(source[r]))
        /\ Fused(source[r]) =>
              \A i \in 1..Len(source[r]) :
                  source[r][i] = None =>
                      /\ \A j \in 1..Len(ret[r]) : i < j => ret[r][j] = None
                      /\ Emissions(r) = Len(Elems(SubSeq(source[r], 1, i)))

\* A fused source: one element, then exhaustion reported on two pulls.
C3_Witness ==
    \E r \in Runs :
        /\ source[r] = << Some(Bob(4)), None, None >>
        /\ Len(ret[r]) = 3
        /\ Emissions(r) = 1

(***************************************************************************)
(* C4 as stated.  Exhausted is terminal: once the source has signalled     *)
(* exhaustion, no later step pulls the wrapped source again or emits.      *)
(***************************************************************************)
C4_TerminalExhausted ==
    [][\A r \in Runs :
          SourceExhausted(r) =>
              /\ source'[r] = source[r]
              /\ stderr'[r] = stderr[r]
              /\ log'[r] = log[r]]_vars

(***************************************************************************)
(* C4 amended.  The adapter keeps no state that tells Active from          *)
(* Exhausted: every pull, also one made after the source has signalled     *)
(* exhaustion, pulls the wrapped source exactly once and returns its       *)
(* answer; a pull on which the source reports exhaustion emits nothing,    *)
(* and a pull on which it yields an element emits exactly once.            *)
(***************************************************************************)
C4_PullsSourceEveryTime ==
    [][\A r \in Runs :
          ret'[r] # ret[r] =>
              /\ Len(source'[r]) = Len(source[r]) + 1
              /\ SubSeq(source'[r], 1, Len(source[r])) = source[r]
              /\ LET item == source'[r][Len(source'[r])]
                 IN  /\ ret'[r] = Append(ret[r], item)
                     /\ item = None => stderr'[r] = stderr[r] /\ log'[r] = log[r]
                     /\ IsSome(item) =>
                            Len(stderr'[r]) + Len(log'[r]) = Emissions(r) + 1]_vars

\* A pull made after the source signalled exhaustion reached the source, which yielded.
C4_Witness ==
    \E r \in Runs :
        /\ source[r] = << None, Some(Bob(8)) >>
        /\ ret[r] = << None, Some(Bob(8)) >>
        /\ Emissions(r) = 1

\* The text each constructor stands for, written from the trait's documentation.
ExpectedText(c, e) ==
    CASE c.name = "debug" -> Compact(e)
      [] c.name = "debug_pretty" -> Pretty(e)
      [] c.name = "debug_prefix" -> c.prefix[1] \o ": " \o Compact(e)
      [] c.name = "debug_prefix_pretty" -> c.prefix[1] \o ": " \o Pretty(e)

(***************************************************************************)
(* C5.  Format selection: every emission is the text its constructor       *)
(* stands for: debug -> compact(e); debug_pretty -> pretty(e);             *)
(* debug_prefix(c) -> c ": " compact(e); debug_prefix_pretty(c) ->         *)
(* c ": " pretty(e); and each constructor sets exactly that policy.        *)
(***************************************************************************)
C5_FormatSelection ==
    \A r \in Runs :
        /\ printer[r].pretty = (ctor[r].name \in {"debug_pretty", "debug_prefix_pretty"})
        /\ printer[r].msg = ctor[r].prefix
        /\ Len(Emitted(r)) = Len(Elems(ret[r]))
        /\ \A i \in 1..Len(Emitted(r)) :
              Emitted(r)[i] = Entry(logging[r], ExpectedText(ctor[r], Elems(ret[r])[i][1]))

\* Between them the two runs used a prefixed pretty adapter and a plain compact one.
C5_Witness ==
    \E a, b \in Runs :
        /\ ctor[a].name = "debug_prefix_pretty"
        /\ ctor[b].name = "debug"
        /\ Len(Emitted(a)) >= 2
        /\ Len(Emitted(b)) >= 1

(***************************************************************************)
(* C6.  Sink selection: in either build exactly one sink receives each     *)
(* emission (the log facade under feature "logging", the error stream      *)
(* otherwise), never both and never neither; and two runs that differ only *)
(* in the build return the same values and emit the same texts.            *)
(***************************************************************************)
C6_SinkSelection ==
    /\ \A r \in Runs :
          /\ logging[r] => stderr[r] = <<>> /\ Len(log[r]) = Len(Elems(ret[r]))
          /\ ~logging[r] => log[r] = <<>> /\ Len(stderr[r]) = Len(Elems(ret[r]))
    /\ \A a, b \in Runs :
          (logging[a] /\ ~logging[b] /\ printer[a] = printer[b] /\ source[a] = source[b]) =>
              /\ ret[a] = ret[b]
              /\ Len(log[a]) = Len(stderr[b])
              /\ \A i \in 1..Len(log[a]) : stderr[b][i] = log[a][i].message \o "\n"

\* The same source and policy under both builds, with emissions made.
C6_Witness ==
    \E a, b \in Runs :
        /\ logging[a] /\ ~logging[b]
        /\ printer[a] = printer[b]
        /\ source[a] = source[b]
        /\ Len(log[a]) = 2
        /\ Len(stderr[b]) = 2

(***************************************************************************)
(* C7.  Determinism: adapters with the same policy (in the same build)     *)
(* emit the same text for the same element, whichever adapter it is and    *)
(* whatever was pulled before; so two adapters driven to the same extent   *)
(* over the same element sequence emit identical sequences and return      *)
(* identical values.                                                       *)
(***************************************************************************)
C7_Deterministic ==
    \A a, b \in Runs :
        (printer[a] = printer[b] /\ logging[a] = logging[b]) =>
            /\ \A i \in 1..Len(Emitted(a)) : \A j \in 1..Len(Emitted(b)) :
                  (/\ i <= Len(Elems(source[a]))
                   /\ j <= Len(Elems(source[b]))
                   /\ Elems(source[a])[i] = Elems(source[b])[j])
                      => Emitted(a)[i] = Emitted(b)[j]
            /\ source[a] = source[b] => ret[a] = ret[b] /\ Emitted(a) = Emitted(b)

\* Two adapters of one policy met the same two elements, in opposite orders.
C7_Witness ==
    \E a, b \in Runs :
        /\ a # b
        /\ printer[a] = printer[b]
        /\ logging[a] = logging[b]
        /\ source[a] = << Some(Bob(4)), Some(Bob(8)) >>
        /\ source[b] = << Some(Bob(8)), Some(Bob(4)) >>
        /\ Len(Emitted(a)) = 2
        /\ Len(Emitted(b)) = 2

(***************************************************************************)
(* C8.  No lookahead: each pull on the adapter calls the wrapped source    *)
(* exactly once and emits at most once, for the element it consumed; after *)
(* k pulls the source has been advanced k times, and no fetched element is *)
(* held back from the caller.                                              *)
(***************************************************************************)
C8_NoLookahead ==
    \A r \in Runs :
        /\ Len(source[r]) = Len(ret[r])
        /\ Emissions(r) <= Len(Elems(source[r]))
        /\ Len(Elems(source[r])) = Len(Elems(ret[r]))

\* Two pulls made, the source advanced twice, elements left unconsumed in neither.
C8_Witness ==
    \E r \in Runs :
        /\ Len(ret[r]) = 2
        /\ Len(source[r]) = 2
        /\ IsSome(source[r][1])
        /\ IsSome(source[r][2])

(***************************************************************************)
(* C9.  Policy immutability: no step changes the pretty flag or the        *)
(* caption of any adapter, whether the pull returns an element or reports  *)
(* exhaustion.                                                             *)
(***************************************************************************)
C9_PolicyImmutable ==
    [][\A r \in Runs :
          /\ printer'[r].pretty = printer[r].pretty
          /\ printer'[r].msg = printer[r].msg]_vars

\* A captioned adapter after a pull that returned an element and one that reported exhaustion.
C9_Witness ==
    \E r \in Runs :
        /\ IsSome(ctor[r].prefix)
        /\ Len(ret[r]) = 2
        /\ IsSome(ret[r][1])
        /\ ret[r][2] = None
        /\ printer[r] = Construct(ctor[r])

(***************************************************************************)
(* C10.  Emit-before-return ordering: within a pull that yields e, the     *)
(* emission comes right after e is fetched from the source and before e is *)
(* returned; nothing is fetched or emitted before the caller asks; and the *)
(* i-th emission in the sink is the rendering of the i-th returned element.*)
(***************************************************************************)
C10_EmitBeforeReturn ==
    \A r \in Runs :
        LET ev == events[r]
            n == Len(ev)
        IN  /\ \A k \in 1..n :
                  /\ ev[k].op = "call" => k = 1 \/ ev[k-1].op = "return"
                  /\ ev[k].op = "fetch" => k > 1 /\ ev[k-1].op = "call"
                  /\ ev[k].op = "emit" =>
                        /\ k > 1 /\ ev[k-1].op = "fetch" /\ IsSome(ev[k-1].item)
                        /\ k < n /\ ev[k+1].op = "return" /\ ev[k+1].item = ev[k-1].item
                  /\ ev[k].op = "return" =>
                        /\ k > 1
                        /\ IF IsSome(ev[k].item) THEN ev[k-1].op = "emit" ELSE ev[k-1].op = "fetch"
            /\ Len(Emitted(r)) = Len(Elems(ret[r]))
            /\ \A i \in 1..Len(Emitted(r)) :
                  Emitted(r)[i] = Entry(logging[r], Format(r, Elems(ret[r])[i][1]))
            /\ Len(SelectSeq(ev, LAMBDA e : e.op = "emit")) = Len(Emitted(r))

\* Two different elements pulled: two emissions, in source order.
C10_Witness ==
    \E r \in Runs :
        /\ ret[r] = << Some(Bob(8)), Some(Bob(4)) >>
        /\ Len(Emitted(r)) = 2
        /\ Len(events[r]) = 8

====
